---- MODULE Spec2Model ----
(***************************************************************************)
(* Model of scRNAseq_collector.py: the Flask handler fetch_rnaseq_data     *)
(* (search -> detail fetches -> destination directory resolution -> FTP    *)
(* downloads) with its three except clauses.  Strings that the code        *)
(* sanitizes or pattern-matches are sequences of characters / tokens.      *)
(***************************************************************************)
EXTENDS Integers, Sequences, FiniteSets, TLC

VARIABLES pc, req, query, id_list, details, user_input, base_dir, idx,
          files, fidx, fs, fs0, trace, responses, failedOp, exc, written

vars == <<pc, req, query, id_list, details, user_input, base_dir, idx,
          files, fidx, fs, fs0, trace, responses, failedOp, exc, written>>

\* Bounds of the model
MaxIds == 3
MaxFiles == 2

-----------------------------------------------------------------------------
\* Characters and strings (a string is a sequence of one-character strings)

LowerLetters == {"a","b","c","d","e","f","g","h","i","j","k","l","m",
                 "n","o","p","q","r","s","t","u","v","w","x","y","z"}
UpperLetters == {"A","B","C","D","E","F","G","H","I","J","K","L","M",
                 "N","O","P","Q","R","S","T","U","V","W","X","Y","Z"}
Digits == {"0","1","2","3","4","5","6","7","8","9"}

\* the character class [a-zA-Z0-9_ ] of the sanitizer's pattern
AllowedChars == LowerLetters \cup UpperLetters \cup Digits \cup {"_", " "}

\* re.sub(r'[^a-zA-Z0-9_ ]', '', user_input)
sanitize_input(s) == SelectSeq(s, LAMBDA c : c \in AllowedChars)

Mouse == <<"m","o","u","s","e">>
DefaultTissue == <<"h","i","p","p","o","c","a","m","p","u","s">>
DefaultDataType == <<"r","n","a","-","s","e","q">>

\* JSON values of a request field: absent, a non-string value, or a string
Absent == [t |-> "absent", s |-> <<>>]
NonString == [t |-> "nonstring", s |-> <<>>]
Str(s) == [t |-> "str", s |-> s]

\* data.get(field, default)
DataGet(v, default) == IF v.t = "absent" THEN Str(default) ELSE v

OrganismValues == {Absent, NonString, Str(Mouse), Str(<<"%","-">>)}
TissueValues == {Absent, NonString, Str(<<"C","A","1","!">>)}
DataTypeValues == {Absent, NonString}

Requests ==
    {[kind |-> "notobject", organism |-> Absent, tissue |-> Absent,
      data_type |-> Absent]}
    \cup [kind : {"object"}, organism : OrganismValues,
          tissue : TissueValues, data_type : DataTypeValues]

\* f"{organism} {tissue} {data_type}"
BuildQuery(organism, tissue, data_type) ==
    organism \o <<" ">> \o tissue \o <<" ">> \o data_type

-----------------------------------------------------------------------------
\* Responses (the cancellation message is written here without its accent)

R400 == [status |-> 400, body |-> "Organism field is required."]
R404 == [status |-> 404, body |-> "No data found for the specified query."]
RCancel == [status |-> 200, body |-> "Operacion cancelada por el usuario."]
RSuccess == [status |-> 200, body |-> "All data fetched and saved successfully."]
RUpstream == [status |-> 500, body |-> "Failed to fetch data from NCBI."]
RTransfer == [status |-> 500, body |-> "Failed to connect to FTP server."]
RUnexpected == [status |-> 500, body |-> "An unexpected error occurred."]

\* ftplib.all_errors == (ftplib.Error, OSError, EOFError)
FtpAllErrors == {"ftplib.Error", "OSError", "EOFError"}

\* faulty variant: the FTP clause placed before the requests clause
\* (RequestException is an OSError, so the FTP clause would take it)
HandlerFtpFirst(e) ==
    IF e \in FtpAllErrors \cup {"RequestException"} THEN RTransfer
    ELSE RUnexpected

\* faulty variant: the FTP clause catching ftplib.Error only
HandlerFtpErrorOnly(e) ==
    IF e = "RequestException" THEN RUpstream
    ELSE IF e = "ftplib.Error" THEN RTransfer
    ELSE RUnexpected

\* faulty variant: no catch-all clause, the exception leaves the handler
HandlerNoCatchAll(e) ==
    IF e = "RequestException" THEN RUpstream
    ELSE IF e \in FtpAllErrors THEN RTransfer
    ELSE [status |-> 0, body |-> "uncaught"]

\* the except clauses of fetch_rnaseq_data, in order
Handler(e) ==
    IF e = "RequestException" THEN RUpstream
    ELSE IF e \in FtpAllErrors THEN RTransfer
    ELSE RUnexpected

-----------------------------------------------------------------------------
\* Detail text: a sequence of tokens

Quote == "\""
FtpScheme == "ftp://"
FtpHost == "ftp.ncbi.nlm.nih.gov/"

BlobNoFtp == <<"<x>", Quote, "<y>">>
BlobBareScheme == <<"<x>", FtpScheme, Quote>>
BlobGood == <<"<x>", Quote, FtpScheme, FtpHost, "geo/GSE1", Quote, "<y>">>
Blobs == {BlobNoFtp, BlobBareScheme, BlobGood}

\* positions where r'ftp://[^"]+' matches
MatchStarts(text) ==
    {i \in 1..Len(text) :
        text[i] = FtpScheme /\ i < Len(text) /\ text[i + 1] # Quote}

\* re.search(r'ftp://[^"]+', study) is not None
HasMatch(text) == MatchStarts(text) # {}

\* ftp_url_match.group(0): from the first match to before the next quote
FtpUrl(text) ==
    LET i == CHOOSE k \in MatchStarts(text) :
                 \A m \in MatchStarts(text) : k <= m
        stops == {k \in i + 1..Len(text) : text[k] = Quote}
        j == IF stops = {} THEN Len(text)
             ELSE (CHOOSE k \in stops : \A m \in stops : k <= m) - 1
    IN  SubSeq(text, i, j)

\* ftp_url.replace("ftp://ftp.ncbi.nlm.nih.gov/", "")
RECURSIVE StripHost(_)
StripHost(u) ==
    IF u = <<>> THEN <<>>
    ELSE IF Len(u) >= 2 /\ u[1] = FtpScheme /\ u[2] = FtpHost
         THEN StripHost(SubSeq(u, 3, Len(u)))
         ELSE <<u[1]>> \o StripHost(Tail(u))

-----------------------------------------------------------------------------
\* Filesystem: a function from paths (sequences of names) to "dir" or a
\* file content

Home == <<"home", "caheri_salas">>
BaseDir == Home \o <<"db_scRNAseq">>

IsPrefix(a, p) == Len(a) <= Len(p) /\ SubSeq(p, 1, Len(a)) = a
Under(a, p) == IsPrefix(a, p) /\ p # a

Restrict(f, S) == [p \in S |-> f[p]]

\* os.path.exists(path)
Exists(f, p) == p \in DOMAIN f

\* shutil.rmtree(path)
RmTree(f, p) == Restrict(f, {q \in DOMAIN f : ~IsPrefix(p, q)})

\* a failed rmtree may have removed the contents already
RmTreeFailed(f, p) == {f, Restrict(f, {q \in DOMAIN f : ~Under(p, q)})}

\* os.makedirs(path): path and its missing ancestors become directories
MakeDirs(f, p) ==
    LET new == {SubSeq(p, 1, n) : n \in 1..Len(p)} \ DOMAIN f
    IN  [q \in new |-> "dir"] @@ f

\* open(path, 'wb'): created or truncated
OpenWb(f, p) == (p :> "empty") @@ f

\* f.write of the retrieved data
WriteData(f, p, content) == (p :> content) @@ f

\* os.path.join('/home/caheri_salas', user_input)
JoinHome(name) == IF name = "" THEN Home ELSE Append(Home, name)

\* faulty variant: enumerate(details) without start=1
StudyDirFromZero(dir, i) == Append(dir, "study_" \o ToString(i - 1))

\* os.path.join(base_dir, f'study_{idx}')
StudyDir(dir, i) == Append(dir, "study_" \o ToString(i))

\* os.path.join(study_dir, file)
LocalFilePath(dir, file) == Append(dir, file)

\* a directory left by an earlier run: study_1 with two files in it
OldTree(dir) ==
    [q \in {dir, Append(dir, "study_1"),
            Append(Append(dir, "study_1"), "f1"),
            Append(Append(dir, "study_1"), "old.txt")} |->
        IF Len(q) = Len(dir) + 2 THEN "old" ELSE "dir"]

HomeOnly == [q \in {<<"home">>, Home} |-> "dir"]

\* no base directory yet, or a base directory and a folder "alt" of
\* earlier runs
InitialFilesystems ==
    {HomeOnly, OldTree(BaseDir) @@ OldTree(Append(Home, "alt")) @@ HomeOnly}

-----------------------------------------------------------------------------
\* Operator prompt

Answers == {"s", "S", "n", "N", "", "alt", "new", "db_scRNAseq"}

\* faulty variant: the answer compared without lower()
LowerIdentity(a) == a

\* user_input.lower()
Lower(a) ==
    IF a = "S" THEN "s"
    ELSE IF a = "N" THEN "n"
    ELSE IF a = "db_scRNAseq" THEN "db_scrnaseq"
    ELSE a

\* faulty variant: base_dir = new_dir forgotten in the redirect branch
RedirectTargetKeepsBase(a) == BaseDir

\* new_dir, and base_dir after "base_dir = new_dir"
RedirectTarget(a) == JoinHome(a)

-----------------------------------------------------------------------------
\* Upstream results

IdPool == [i \in 1..(MaxIds + 1) |-> 100000 + i]
IdLists == {SubSeq(IdPool, 1, n) : n \in 0..MaxIds}

FilePool == [i \in 1..(MaxFiles + 1) |-> "f" \o ToString(i)]
Listings == {SubSeq(FilePool, 1, n) : n \in 0..MaxFiles}

\* faulty variant: the empty identifier list not tested
NoRecordsNever(ids) == FALSE

\* not id_list
NoRecords(ids) == ids = <<>>

Event(op, arg) == [op |-> op, arg |-> arg]
NoArg == <<>>

-----------------------------------------------------------------------------
Init ==
    /\ pc = "start"
    /\ req \in Requests
    /\ fs \in InitialFilesystems
    /\ fs0 = fs
    /\ query = <<>>
    /\ id_list = <<>>
    /\ details = <<>>
    /\ user_input = ""
    /\ base_dir = BaseDir
    /\ idx = 1
    /\ files = <<>>
    /\ fidx = 1
    /\ trace = <<>>
    /\ responses = <<>>
    /\ failedOp = "none"
    /\ exc = "none"
    /\ written = {}

\* return jsonify(...), status
Respond(r) ==
    /\ responses' = Append(responses, r)
    /\ pc' = "done"

\* an exception raised by step op reaches the except clauses
Raise(op, e) ==
    /\ failedOp' = op
    /\ exc' = e
    /\ Respond(Handler(e))

\* a normal return: no exception is recorded
Return(r) == Respond(r) /\ UNCHANGED <<failedOp, exc>>

\* control moves on to the next step
Goto(p) == pc' = p /\ UNCHANGED <<responses, failedOp, exc>>

Log(op, arg) == trace' = Append(trace, Event(op, arg))

\* if not organism
MissingOrganism(organism) == organism = <<>>

\* lines 39-54: get_json, the three sanitize_input calls, the organism
\* check and the query
Validate ==
    /\ pc = "start"
    /\ IF req.kind # "object"
       THEN /\ \E e \in {"HTTPException", "AttributeError"} :
                   Raise("get_json", e)
            /\ UNCHANGED query
       ELSE LET o == DataGet(req.organism, <<>>)
                t == DataGet(req.tissue, DefaultTissue)
                d == DataGet(req.data_type, DefaultDataType)
            IN  IF o.t # "str" \/ t.t # "str" \/ d.t # "str"
                THEN Raise("sanitize_input", "TypeError") /\ UNCHANGED query
                ELSE IF MissingOrganism(sanitize_input(o.s))
                THEN Return(R400) /\ UNCHANGED query
                ELSE /\ query' = BuildQuery(sanitize_input(o.s),
                                            sanitize_input(t.s),
                                            sanitize_input(d.s))
                     /\ Goto("search")
    /\ UNCHANGED <<req, id_list, details, user_input, base_dir, idx, files,
                   fidx, fs, fs0, trace, written>>

\* lines 57-64: the search call, its JSON body and the empty-list check
Search ==
    /\ pc = "search"
    /\ Log("search", query)
    /\ \/ Raise("search", "RequestException") /\ UNCHANGED id_list
       \/ /\ \E e \in {"RequestException", "ValueError"} :
                 Raise("search_json", e)
          /\ UNCHANGED id_list
       \/ \E ids \in IdLists :
              /\ id_list' = ids
              /\ IF NoRecords(ids) THEN Return(R404)
                 ELSE Goto(IF Len(ids) = 0 THEN "resolve" ELSE "fetch")
    /\ UNCHANGED <<req, query, details, user_input, base_dir, idx, files,
                   fidx, fs, fs0, written>>

\* lines 68-77: one iteration of the detail loop
Fetch ==
    /\ pc = "fetch"
    /\ LET i == Len(details) + 1
       IN  /\ Log("fetch", id_list[i])
           /\ \/ Raise("fetch", "RequestException") /\ UNCHANGED details
              \/ \E b \in Blobs :
                     /\ details' = Append(details, b)
                     /\ Goto(IF i = Len(id_list) THEN "resolve" ELSE "fetch")
    /\ UNCHANGED <<req, query, id_list, user_input, base_dir, idx, files,
                   fidx, fs, fs0, written>>

\* lines 83, 94-95: the base directory does not exist
ResolveNew ==
    /\ pc = "resolve"
    /\ ~Exists(fs, base_dir)
    /\ \/ Raise("makedirs", "OSError") /\ UNCHANGED fs
       \/ fs' = MakeDirs(fs, base_dir) /\ Goto("download")
    /\ UNCHANGED <<req, query, id_list, details, user_input, base_dir, idx,
                   files, fidx, fs0, trace, written>>

\* lines 83-90: the base directory exists: prompt and dispatch on the answer
Prompt ==
    /\ pc = "resolve"
    /\ Exists(fs, base_dir)
    /\ Log("input", NoArg)
    /\ \/ Raise("input", "EOFError") /\ UNCHANGED user_input
       \/ \E a \in Answers :
              /\ user_input' = a
              /\ IF Lower(a) = "s" THEN Goto("overwrite")
                 ELSE IF Lower(a) = "n" THEN Return(RCancel)
                 ELSE Goto("redirect")
    /\ UNCHANGED <<req, query, id_list, details, base_dir, idx, files, fidx,
                   fs, fs0, written>>

\* lines 86-87: rmtree then makedirs
Overwrite ==
    /\ pc = "overwrite"
    /\ \/ \E f \in RmTreeFailed(fs, base_dir) :
              fs' = f /\ Raise("rmtree", "OSError")
       \/ fs' = RmTree(fs, base_dir) /\ Raise("makedirs", "OSError")
       \/ fs' = MakeDirs(RmTree(fs, base_dir), base_dir) /\ Goto("download")
    /\ UNCHANGED <<req, query, id_list, details, user_input, base_dir, idx,
                   files, fidx, fs0, trace, written>>

\* lines 91-93: the alternate directory
Redirect ==
    /\ pc = "redirect"
    /\ \/ Raise("makedirs", "OSError") /\ UNCHANGED <<fs, base_dir>>
       \/ /\ fs' = MakeDirs(fs, JoinHome(user_input))
          /\ base_dir' = RedirectTarget(user_input)
          /\ Goto("download")
    /\ UNCHANGED <<req, query, id_list, details, user_input, idx, files,
                   fidx, fs0, trace, written>>

\* line 98 exhausted, line 122
Finish ==
    /\ pc = "download"
    /\ idx > Len(details)
    /\ Return(RSuccess)
    /\ UNCHANGED <<req, query, id_list, details, user_input, base_dir, idx,
                   files, fidx, fs, fs0, trace, written>>

\* lines 100-101: no match, next record
SkipRecord ==
    /\ pc = "download"
    /\ idx <= Len(details)
    /\ ~HasMatch(details[idx])
    /\ idx' = idx + 1
    /\ Goto("download")
    /\ UNCHANGED <<req, query, id_list, details, user_input, base_dir,
                   files, fidx, fs, fs0, trace, written>>

\* a step of the FTP session: fails with one of ftplib.all_errors or
\* moves on
FtpStep(op, arg, next) ==
    /\ Log(op, arg)
    /\ \/ \E e \in FtpAllErrors : Raise(op, e)
       \/ Goto(next)

\* lines 100-106: a match, ftplib.FTP(host)
FtpConnect ==
    /\ pc = "download"
    /\ idx <= Len(details)
    /\ HasMatch(details[idx])
    /\ FtpStep("ftp_connect", NoArg, "ftp_login")
    /\ UNCHANGED <<req, query, id_list, details, user_input, base_dir, idx,
                   files, fidx, fs, fs0, written>>

\* line 107
FtpLogin ==
    /\ pc = "ftp_login"
    /\ FtpStep("ftp_login", NoArg, "ftp_cwd")
    /\ UNCHANGED <<req, query, id_list, details, user_input, base_dir, idx,
                   files, fidx, fs, fs0, written>>

\* line 108
FtpCwd ==
    /\ pc = "ftp_cwd"
    /\ FtpStep("ftp_cwd", StripHost(FtpUrl(details[idx])), "ftp_nlst")
    /\ UNCHANGED <<req, query, id_list, details, user_input, base_dir, idx,
                   files, fidx, fs, fs0, written>>

\* line 110
FtpNlst ==
    /\ pc = "ftp_nlst"
    /\ Log("ftp_nlst", NoArg)
    /\ \/ (\E e \in FtpAllErrors : Raise("ftp_nlst", e)) /\ UNCHANGED files
       \/ \E l \in Listings : files' = l /\ Goto("mkstudy")
    /\ UNCHANGED <<req, query, id_list, details, user_input, base_dir, idx,
                   fidx, fs, fs0, written>>

\* lines 111-114: the study directory, then the file loop is entered
MakeStudyDir ==
    /\ pc = "mkstudy"
    /\ Log("mkstudy", StudyDir(base_dir, idx))
    /\ \/ Raise("mkstudy", "OSError") /\ UNCHANGED <<fs, fidx>>
       \/ /\ fs' = MakeDirs(fs, StudyDir(base_dir, idx))
          /\ fidx' = 1
          /\ Goto(IF files = <<>> THEN "ftp_quit" ELSE "open")
    /\ UNCHANGED <<req, query, id_list, details, user_input, base_dir, idx,
                   files, fs0, written>>

\* lines 115-116: open(local_filepath, 'wb')
OpenFile ==
    /\ pc = "open"
    /\ LET path == LocalFilePath(StudyDir(base_dir, idx), files[fidx])
       IN  /\ Log("open", path)
           /\ \/ Raise("open", "OSError") /\ UNCHANGED fs
              \/ fs' = OpenWb(fs, path) /\ Goto("retr")
    /\ UNCHANGED <<req, query, id_list, details, user_input, base_dir, idx,
                   files, fidx, fs0, written>>

\* lines 117-118: retrbinary into the open file, next file
Retr ==
    /\ pc = "retr"
    /\ LET path == LocalFilePath(StudyDir(base_dir, idx), files[fidx])
       IN  /\ Log("ftp_retr", path)
           /\ \/ /\ \E e \in FtpAllErrors : Raise("ftp_retr", e)
                 /\ \E c \in {"empty", "partial"} :
                        fs' = WriteData(fs, path, c)
                 /\ UNCHANGED <<written, fidx>>
              \/ /\ fs' = WriteData(fs, path, "data")
                 /\ written' = written \cup {path}
                 /\ fidx' = fidx + 1
                 /\ Goto(IF fidx = Len(files) THEN "ftp_quit" ELSE "open")
    /\ UNCHANGED <<req, query, id_list, details, user_input, base_dir, idx,
                   files, fs0>>

\* line 120, next record
FtpQuit ==
    /\ pc = "ftp_quit"
    /\ Log("ftp_quit", NoArg)
    /\ \/ (\E e \in FtpAllErrors : Raise("ftp_quit", e)) /\ UNCHANGED idx
       \/ idx' = idx + 1 /\ Goto("download")
    /\ UNCHANGED <<req, query, id_list, details, user_input, base_dir,
                   files, fidx, fs, fs0, written>>

Next ==
    \/ Validate
    \/ Search
    \/ Fetch
    \/ ResolveNew
    \/ Prompt
    \/ Overwrite
    \/ Redirect
    \/ Finish
    \/ SkipRecord
    \/ FtpConnect
    \/ FtpLogin
    \/ FtpCwd
    \/ FtpNlst
    \/ MakeStudyDir
    \/ OpenFile
    \/ Retr
    \/ FtpQuit

Spec == Init /\ [][Next]_vars

\* every blocking step eventually returns
FairSpec == Spec /\ WF_vars(Next)

-----------------------------------------------------------------------------
\* Vocabulary of the properties

FtpOps == {"ftp_connect", "ftp_login", "ftp_cwd", "ftp_nlst", "ftp_retr",
           "ftp_quit"}

\* the positions of the trace holding an event of one of the given kinds
EventsOf(ops) == {i \in 1..Len(trace) : trace[i].op \in ops}

\* what the request has added or rewritten, and what it has removed
Changed == {p \in DOMAIN fs : p \notin DOMAIN fs0 \/ fs[p] # fs0[p]}
Removed == DOMAIN fs0 \ DOMAIN fs

\* the records that yield a transfer location
RecordsWithLocation == {k \in 1..Len(details) : HasMatch(details[k])}

\* the directories passed to the per-study makedirs
StudyDirsMade == {trace[i].arg : i \in EventsOf({"mkstudy"})}

OrganismMissing ==
    /\ req.kind = "object"
    /\ \/ req.organism.t = "absent"
       \/ req.organism.t = "str" /\ sanitize_input(req.organism.s) = <<>>

\* C1 (as claimed): a request whose organism is absent or empty after
\* sanitization ends with the 400 response, having made no outbound call,
\* no prompt and no filesystem change.
C1_MissingOrganismIs400 ==
    (pc = "done" /\ OrganismMissing) =>
        /\ responses = <<R400>>
        /\ trace = <<>>
        /\ fs = fs0

MouseRequest ==
    [kind |-> "object", organism |-> Str(Mouse), tissue |-> Absent,
     data_type |-> Absent]

MouseHippocampusRnaSeq ==
    <<"m","o","u","s","e"," ","h","i","p","p","o","c","a","m","p","u","s",
      " ","r","n","a","-","s","e","q">>

\* C2 (as claimed): for organism "mouse" with tissue and data_type omitted
\* the term sent to the search endpoint is "mouse hippocampus rna-seq".
C2_DefaultQueryTerm ==
    req = MouseRequest =>
        \A i \in EventsOf({"search"}) : trace[i].arg = MouseHippocampusRnaSeq

SearchReturnedEmpty ==
    /\ EventsOf({"search"}) # {}
    /\ failedOp \notin {"search", "search_json"}
    /\ id_list = <<>>

\* C3: a successful search with an empty identifier list ends the request
\* with 404; the search is the only call made, there is no prompt and the
\* filesystem is untouched.
C3_EmptyIdListIs404 ==
    SearchReturnedEmpty =>
        /\ pc = "done"
        /\ responses = <<R404>>
        /\ Len(trace) = 1
        /\ fs = fs0

C3_Witness ==
    /\ SearchReturnedEmpty
    /\ pc = "done"
    /\ responses = <<R404>>

\* C4: when the Nth detail fetch fails after N-1 successes, the fetches made
\* are exactly those of identifiers 1..N, the response is the 500 upstream
\* failure, and there is no prompt, no FTP step and no filesystem change.
C4_DetailFailureAborts ==
    failedOp = "fetch" =>
        LET N == Len(details) + 1
        IN  /\ pc = "done"
            /\ responses = <<RUpstream>>
            /\ N <= Len(id_list)
            /\ Len(trace) = 1 + N
            /\ \A j \in 1..N : /\ trace[1 + j].op = "fetch"
                               /\ trace[1 + j].arg = id_list[j]
            /\ fs = fs0
            /\ written = {}

\* the second of three fetches fails
C4_Witness ==
    /\ failedOp = "fetch"
    /\ Len(details) = 1
    /\ Len(id_list) = 3
    /\ pc = "done"

\* C5: with the base directory present and the answer 'n' or 'N', the
\* response is the 200 cancellation, the filesystem is as it was before the
\* request and no FTP step is made.
C5_CancelLeavesFilesystem ==
    user_input \in {"n", "N"} =>
        /\ pc = "done"
        /\ responses = <<RCancel>>
        /\ fs = fs0
        /\ EventsOf(FtpOps) = {}
        /\ BaseDir \in DOMAIN fs0

C5_Witness ==
    /\ user_input = "N"
    /\ pc = "done"
    /\ responses = <<RCancel>>
    /\ Len(details) = 2

DocumentedResponses ==
    {R400, R404, RCancel, RSuccess, RUpstream, RTransfer, RUnexpected}

\* C6: every run ends, with exactly one response, which is one of the seven
\* documented ones; no response is produced before the end and nothing
\* happens after it.
C6_ExactlyOneResponse ==
    /\ <>(pc = "done")
    /\ [](pc = "done" =>
            Len(responses) = 1 /\ responses[1] \in DocumentedResponses)
    /\ [](pc # "done" => responses = <<>>)
    /\ [][pc # "done"]_vars

C6_Witness ==
    /\ pc = "done"
    /\ responses = <<RUnexpected>>

FtpFailureOps ==
    {"ftp_connect", "ftp_login", "ftp_cwd", "ftp_nlst", "ftp_retr"}

\* C7: a failed connection, login, directory change, listing or retrieval
\* ends the request with the 500 transfer-failure response, the failed step
\* is the last thing attempted, and every file retrieved before it is still
\* in place with its data.
C7_TransferFailureKeepsFiles ==
    failedOp \in FtpFailureOps =>
        /\ pc = "done"
        /\ responses = <<RTransfer>>
        /\ trace[Len(trace)].op = failedOp
        /\ \A p \in written : p \in DOMAIN fs /\ fs[p] = "data"

\* the retrieval of the second file of the second location fails
C7_Witness ==
    /\ failedOp = "ftp_retr"
    /\ idx = 2
    /\ fidx = 2
    /\ Cardinality(written) >= 2
    /\ HasMatch(details[1])

LocalFailureOps == {"rmtree", "makedirs", "mkstudy", "open", "input"}

\* C8 (as claimed): a failure of a local filesystem step or of the operator
\* prompt yields the 500 unexpected-failure response.
C8_LocalFailureIsUnexpected ==
    failedOp \in LocalFailureOps => responses = <<RUnexpected>>

\* C9 (as claimed): a successful request with m extracted locations has
\* made exactly the subdirectories study_1..study_m of the destination.
C9_StudyDirsAreOneToM ==
    (pc = "done" /\ responses = <<RSuccess>>) =>
        StudyDirsMade =
            {Append(base_dir, "study_" \o ToString(k)) :
                k \in 1..Cardinality(RecordsWithLocation)}

\* C9 (amended): the location of the record at position k of the fetched
\* records is downloaded into study_k, and a successful request has made
\* exactly the subdirectories study_k of the records k that have a location;
\* a record without one is skipped and gets no subdirectory.
C9_StudyDirByRecordPosition ==
    /\ pc \in {"open", "retr", "ftp_quit"} =>
           /\ HasMatch(details[idx])
           /\ Append(base_dir, "study_" \o ToString(idx)) \in StudyDirsMade
           /\ fs[Append(base_dir, "study_" \o ToString(idx))] = "dir"
    /\ pc = "retr" =>
           /\ trace[Len(trace)].op = "open"
           /\ trace[Len(trace)].arg =
                  Append(Append(base_dir, "study_" \o ToString(idx)),
                         files[fidx])
    /\ (pc = "done" /\ responses = <<RSuccess>>) =>
           StudyDirsMade =
               {Append(base_dir, "study_" \o ToString(k)) :
                   k \in RecordsWithLocation}

\* a record without a location comes before one with a location
C9_Witness ==
    /\ pc = "done"
    /\ responses = <<RSuccess>>
    /\ Len(details) = 2
    /\ details[1] = BlobNoFtp
    /\ HasMatch(details[2])
    /\ written # {}

\* the prompt was answered with a folder name
Redirected ==
    /\ EventsOf({"input"}) # {}
    /\ failedOp # "input"
    /\ user_input \notin {"s", "S", "n", "N"}

AlternateDir == IF user_input = "" THEN Home ELSE Append(Home, user_input)

\* C10 (as claimed): after a folder-name answer everything the request
\* creates lies under the alternate directory and the base directory and its
\* contents stay as they were.
C10_RedirectLeavesBase ==
    Redirected =>
        /\ \A p \in Changed : IsPrefix(AlternateDir, p)
        /\ Removed = {}
        /\ \A p \in Changed : ~IsPrefix(BaseDir, p)

\* C10 (amended): after a folder-name answer everything the request creates
\* lies under the alternate directory and nothing is removed; the base
\* directory and its contents stay as they were when the alternate directory
\* is not the base directory or a directory inside it.
C10_RedirectUnderAlternate ==
    Redirected =>
        /\ \A p \in Changed : IsPrefix(AlternateDir, p)
        /\ Removed = {}
        /\ ~IsPrefix(BaseDir, AlternateDir) =>
               \A p \in Changed : ~IsPrefix(BaseDir, p)

\* the empty answer, files downloaded
C10_Witness ==
    /\ Redirected
    /\ user_input = ""
    /\ pc = "done"
    /\ responses = <<RSuccess>>
    /\ written # {}

====
